---------------------------- MODULE Spec2Model ----------------------------
(***************************************************************************)
(* Model of the reverse-annealing notebook (src/01-reverse-annealing.ipynb)*)
(* as a top-to-bottom run of its code cells against a remote solver, plus  *)
(* the pure helpers the cells define (flip_bits, get_hamming_distances,    *)
(* analyze) and import (make_reverse_anneal_schedule).                     *)
(*                                                                         *)
(* Units.  The annealing parameter s is kept in hundredths (s = 100 is     *)
(* 1.0, s_target = 45 is 0.45).  Times are kept in units of 10^-4 us       *)
(* (hold_time = 80 us is 800000).  The solver's minimum annealing time     *)
(* annealing_time_range[0] is kept in units of 0.01 us (0.5 us is 50).     *)
(* A slope is the rational num/den in 1/us.  Energies, biases and          *)
(* couplings are integers (the notebook's 1.0, -1.0 and 0.0).              *)
(***************************************************************************)
EXTENDS Integers, Sequences, FiniteSets

VARIABLES
    pc,                \* position of the run: the step to execute next
    solver,            \* properties of the solver the sampler connected to
    max_slope,         \* notebook global max_slope
    problem,           \* which h, J are bound: "none", "random" or "16bit"
    reverse_schedule,  \* notebook global reverse_schedule
    time_total,        \* notebook global time_total
    pause_schedule,    \* notebook global pause_schedule
    schedule,          \* notebook global schedule (sweep and exercise cells)
    initial,           \* notebook global initial
    sampler_embedded,  \* TRUE once the name sampler_embedded is bound
    requests,          \* log of the sample_ising calls made, in call order
    pending,           \* indices into requests whose results are not read yet
    answer,            \* samples of the answer read last (rows of record.sample)
    data,              \* notebook global data (rows appended by the sampling cell)
    ratio,             \* notebook global ratio (exercise cell)
    k,                 \* index of the sweep loop's current iteration
    exception,         \* the unhandled exception that stopped the run, or "none"
    spin_bits,         \* argument of the flip_bits call under check
    sols,              \* argument of the get_hamming_distances call under check
    hamming_distances, \* its result
    params             \* arguments of the make_reverse_anneal_schedule call under check

vars == <<pc, solver, max_slope, problem, reverse_schedule, time_total,
          pause_schedule, schedule, initial, sampler_embedded, requests,
          pending, answer, data, ratio, k, exception, spin_bits, sols,
          hamming_distances, params>>

--------------------------------------------------------------------------
(* Bounds of the model.                                                    *)

\* Number of reads per request: stands for reads = 1000 and num_reads = 1000.
MaxReads == 2
\* Width of the sample rows given to get_hamming_distances on its own.
HammingWidth == 3
\* Longest sequence of samples given to get_hamming_distances on its own.
MaxSols == 3
\* Largest hold_time (us) and minimum annealing time (0.01 us) tried besides
\* the notebook's own values.
MaxHoldTime == 2
MaxMinAnnealTime == 2
\* Largest minimum annealing time (0.01 us) the pause schedule is built for
\* on its own: 200 us.
MaxPauseMinAnnealTime == 20000

Spins == {-1, 1}

Min(a, b) == IF a <= b THEN a ELSE b

RECURSIVE SumOver(_, _)
\* Sum of f[i] over the finite index set S.
SumOver(f, S) ==
    IF S = {} THEN 0
    ELSE LET i == CHOOSE i \in S : TRUE
         IN  f[i] + SumOver(f, S \ {i})

--------------------------------------------------------------------------
(* The 16-bit problem.                                                     *)

NumQubits == 16
Qubits == 0..(NumQubits - 1)

h_without_bias_15 ==
    [q \in Qubits |->
        CASE q \in {0, 3, 4, 7, 8, 11, 12} -> 1
          [] q \in {1, 2, 5, 9, 10, 14} -> -1
          [] q \in {6, 13, 15} -> 0]

h ==
    [q \in Qubits |->
        CASE q \in {0, 3, 4, 7, 8, 11, 12, 15} -> 1
          [] q \in {1, 2, 5, 9, 10, 14} -> -1
          [] q \in {6, 13} -> 0]

Couplers ==
    { <<9, 13>>, <<2, 6>>, <<8, 13>>, <<9, 14>>, <<9, 15>>,
      <<10, 13>>, <<5, 13>>, <<10, 12>>, <<1, 5>>, <<10, 14>>,
      <<0, 5>>, <<1, 6>>, <<3, 6>>, <<1, 7>>, <<11, 14>>,
      <<2, 5>>, <<2, 4>>, <<6, 14>> }

J == [c \in Couplers |-> -1]

\* dimod.ising_energy: sum of h[v]*s[v] plus sum of J[u,v]*s[u]*s[v].
ising_energy(sample, hh, JJ) ==
    SumOver([v \in DOMAIN hh |-> hh[v] * sample[v]], DOMAIN hh)
    + SumOver([c \in DOMAIN JJ |-> JJ[c] * sample[c[1]] * sample[c[2]]], DOMAIN JJ)

ground_state_all_up == [s_i \in Qubits |-> 1]

ground_state == [s_i \in Qubits |-> -1]

ground_energy == ising_energy(ground_state, h, J)

flip_bits_keep_sign(sample, bits) ==
    [bit \in DOMAIN sample |-> IF bit \in bits THEN sample[bit] ELSE sample[bit]]

\* sample.update({bit: -sample[bit] for bit in spin_bits}); return sample
flip_bits(sample, bits) ==
    [bit \in DOMAIN sample |-> IF bit \in bits THEN -sample[bit] ELSE sample[bit]]

\* The initial states the notebook names by their Hamming distance.
LabelledInitialStates ==
    { [label |-> 1,  bits |-> {15}],
      [label |-> 3,  bits |-> {0, 7, 15}],
      [label |-> 6,  bits |-> {1, 4, 7, 10, 12, 15}],
      [label |-> 9,  bits |-> {1, 2, 5, 6, 9, 10, 13, 14, 15}],
      [label |-> 16, bits |-> Qubits] }

--------------------------------------------------------------------------
(* Hamming distances.                                                      *)

\* x1 != x2 on two numpy rows: the elementwise comparison, as 0/1.
not_equal(x1, x2) == [i \in DOMAIN x1 |-> IF x1[i] # x2[i] THEN 1 ELSE 0]

np_sum(a) == SumOver(a, DOMAIN a)

get_hamming_distance(x1, x2) == np_sum(not_equal(x1, x2))

\* sols[n:]
slice_from(s, n) == [i \in 1..(IF Len(s) > n THEN Len(s) - n ELSE 0) |-> s[i + n]]

\* zip(a, b): stops at the shorter argument.
zip(a, b) == [i \in 1..Min(Len(a), Len(b)) |-> <<a[i], b[i]>>]

get_hamming_distances_first(s) ==
    [i \in 1..Len(zip(s, slice_from(s, 1))) |-> get_hamming_distance(s[1], s[i + 1])]

get_hamming_distances(s) ==
    LET pairs == zip(s, slice_from(s, 1))
    IN  [i \in 1..Len(pairs) |-> get_hamming_distance(pairs[i][1], pairs[i][2])]

--------------------------------------------------------------------------
(* Anneal schedules.  A schedule is a sequence of <<time, s>> breakpoints. *)

\* Time (10^-4 us) a ramp of ds hundredths takes at the given slope (1/us).
ramp_duration(ds, slope) == (ds * slope.den * 100) \div slope.num

\* Slope of the ramp from s = 1.0 back to s_target.
ramp_back_slope == [num |-> 1, den |-> 5]

\* helpers/schedule.py: start at s = 1.0, ramp back to s_target, hold for
\* hold_time, ramp up to s = 1.0 at ramp_up_slope.
make_reverse_anneal_schedule(s_target, hold_time, ramp_up_slope) ==
    LET ramp_time    == ramp_duration(100 - s_target, ramp_back_slope)
        hold         == hold_time * 10000
        ramp_up_time == ramp_duration(100 - s_target, ramp_up_slope)
    IN  << <<0, 100>>,
           <<ramp_time, s_target>>,
           <<ramp_time + hold, s_target>>,
           <<ramp_time + hold + ramp_up_time, 100>> >>

\* max_slope = 1.0/sampler.properties["annealing_time_range"][0]
get_max_slope(properties) == [num |-> 100, den |-> properties.annealing_time_range[1]]

get_time_total_hold_end(reverse_sched) == reverse_sched[3][1]

\* time_total = reverse_schedule[3][0]
get_time_total(reverse_sched) == reverse_sched[4][1]

\* pause_schedule=[[0.0, 0.0], [50.0, 0.5], [time_total-0.5/max_slope, 0.5], [time_total, 1.0]]
make_pause_schedule(tt, slope) ==
    << <<0, 0>>, <<500000, 50>>, <<tt - ramp_duration(50, slope), 50>>, <<tt, 100>> >>

s_target_vals == <<30, 45, 60, 75, 90>>
hold_time_vals == <<10, 100>>

\* itertools.product(s_target_vals, hold_time_vals): the last factor varies fastest.
product(a, b) ==
    [i \in 1..(Len(a) * Len(b)) |-> <<a[((i - 1) \div Len(b)) + 1], b[((i - 1) % Len(b)) + 1]>>]

exercise_s_target_vals == <<95, 85, 75, 65, 55, 45, 35>>
exercise_hold_time_vals == <<40, 100>>
\* x, y = 5, 0 (indices from 0)
exercise_x == 5
exercise_y == 0

--------------------------------------------------------------------------
(* Answers and their analysis.  An answer is a sequence of rows            *)
(* [sample, energy, num_occurrences]; a ratio or a mean is the rational    *)
(* num/den.                                                                *)

\* reads = 1000, scaled to the model's bound.
reads == MaxReads
\* The literal num_reads=1000, scaled alike.
num_reads_literal == MaxReads

\* Samples the solver returns for the 16-bit problem: the global minimum and
\* one excited state.
SamplePool == {ground_state, flip_bits(ground_state, {15})}

row_of(sample) ==
    [sample |-> sample, energy |-> ising_energy(sample, h, J), num_occurrences |-> 1]

PoolRows == {row_of(smp) : smp \in SamplePool}

\* answer_mode='raw': one row per read, in read order.
RawAnswers(num_reads) == [1..num_reads -> PoolRows]

RECURSIVE sorted_by_energy(_)
sorted_by_energy(rows) ==
    IF rows = {} THEN <<>>
    ELSE LET r == CHOOSE r \in rows : \A o \in rows : r.energy <= o.energy
         IN  <<r>> \o sorted_by_energy(rows \ {r})

\* answer_mode='histogram': one row per distinct sample with its number of
\* occurrences, by increasing energy.
histogram(raw) ==
    sorted_by_energy(
        { [sample |-> smp, energy |-> ising_energy(smp, h, J),
           num_occurrences |-> Cardinality({i \in DOMAIN raw : raw[i].sample = smp})]
          : smp \in {raw[i].sample : i \in DOMAIN raw} })

HistogramAnswers(num_reads) == { histogram(raw) : raw \in RawAnswers(num_reads) }

\* An answer for the random problem on the whole working graph: between one
\* and num_reads distinct rows, each represented by its rank.
RandomProblemAnswers(num_reads) ==
    { [i \in 1..n |-> [sample |-> <<"row", i>>]] : n \in 1..num_reads }

\* i5 = int(5.0/95*len(forward_answer))
get_i5(forward_answer) == (5 * Len(forward_answer)) \div 95

energies_of(ans) == [i \in DOMAIN ans |-> ans[i].energy]
solutions_of(ans) == [i \in DOMAIN ans |-> ans[i].sample]

\* list(...).count(value)
count(seq, value) == Cardinality({i \in DOMAIN seq : seq[i] = value})

\* answer.first.energy: the lowest energy of the answer.
first_energy(ans) ==
    LET e == energies_of(ans)
    IN  e[CHOOSE i \in DOMAIN e : \A j \in DOMAIN e : e[i] <= e[j]]

\* round(num/den, 2), in hundredths; an exact tie goes to the even neighbour.
round2(num, den) ==
    LET q == (100 * num) \div den
        r == (100 * num) - q * den
    IN  IF 2 * r < den THEN q
        ELSE IF 2 * r > den THEN q + 1
        ELSE IF q % 2 = 0 THEN q ELSE q + 1

ratio_of_lowest_energy(ans) ==
    [num |-> count(energies_of(ans), first_energy(ans)), den |-> reads]

\* ratio = list(answer.record.energy).count(ground_energy)/float(reads)
global_minimum_ratio(ans) ==
    [num |-> count(energies_of(ans), ground_energy), den |-> reads]

analyze(ans) ==
    LET solutions == solutions_of(ans)
        energies  == energies_of(ans)
        distances == get_hamming_distances(solutions)
    IN  [solutions         |-> solutions,
         energies          |-> energies,
         hamming_distances |-> distances,
         energy_best       |-> 100 * first_energy(ans),
         ratio             |-> global_minimum_ratio(ans),
         energy_mean       |-> round2(np_sum(energies), Len(energies)),
         hamming_mean      |-> round2(np_sum(distances), Len(distances))]

--------------------------------------------------------------------------
(* Sampling requests.  A request records the call site, the sampler it is  *)
(* made on, the problem and the keyword arguments of sample_ising.         *)

Label == "Notebook - Reverse Annealing"

\* forward_answer = sampler.sample_ising(h, J, num_reads=1000, annealing_time=time_total, ...)
forward_random_kwargs(tt) ==
    [num_reads |-> num_reads_literal, annealing_time |-> tt,
     label |-> Label, answer_mode |-> "histogram"]

\* reverse_anneal_params = dict(anneal_schedule=..., initial_state=..., reinitialize_state=...)
reverse_anneal_params(sched, init, reinit) ==
    [anneal_schedule |-> sched, initial_state |-> init, reinitialize_state |-> reinit]

\* sample_ising(h, J, num_reads=..., label=..., answer_mode=..., **reverse_anneal_params)
reverse_kwargs(num_reads, mode, p) ==
    [num_reads |-> num_reads, label |-> Label, answer_mode |-> mode,
     anneal_schedule |-> p.anneal_schedule, initial_state |-> p.initial_state,
     reinitialize_state |-> p.reinitialize_state]

forward_kwargs_with_schedule(tt) ==
    [num_reads |-> reads, annealing_time |-> tt, anneal_schedule |-> reverse_schedule,
     label |-> Label, answer_mode |-> "raw"]

\* Standard forward annealing on the 16-bit problem.
forward_kwargs(tt) ==
    [num_reads |-> reads, annealing_time |-> tt, label |-> Label, answer_mode |-> "raw"]

\* Forward annealing with pause.
pause_kwargs(sched) ==
    [anneal_schedule |-> sched, num_reads |-> reads, label |-> Label, answer_mode |-> "raw"]

\* The three methods of the sampling cell, in the order of its code.
Methods == <<"forward", "pause", "reverse">>

sampling_kwargs(j) ==
    CASE Methods[j] = "forward" -> forward_kwargs(time_total)
      [] Methods[j] = "pause"   -> pause_kwargs(pause_schedule)
      [] Methods[j] = "reverse" ->
            reverse_kwargs(reads, "raw", reverse_anneal_params(reverse_schedule, initial, TRUE))

\* The call sites of sample_ising in the order a top-to-bottom run meets them.
ProgramOrder ==
    <<"forward_random", "reverse_random">> \o Methods
    \o [i \in 1..(Len(s_target_vals) * Len(hold_time_vals)) |-> "sweep"]
    \o <<"exercise">>

\* The solver accepts a schedule of at most max_anneal_schedule_points points.
Rejected(req) ==
    /\ "anneal_schedule" \in DOMAIN req.kwargs
    /\ Len(req.kwargs.anneal_schedule) > solver.max_anneal_schedule_points

\* The call of sample_ising: the request leaves for the solver.
Submit(site, on, kwargs) ==
    /\ requests' = Append(requests,
                      [site |-> site, sampler |-> on, problem |-> problem, kwargs |-> kwargs])
    /\ pending' = pending \cup {Len(requests) + 1}

LastRequest == requests[Len(requests)]

\* The first read of the last request's results, which waits for them.
Resolve == pending' = pending \ {Len(requests)}

\* An unhandled exception ends the run.
Raise(name) ==
    /\ pc' = "failed"
    /\ exception' = name

--------------------------------------------------------------------------
(* Solvers the sampler may connect to.                                     *)

SchedulePointOptions == {3, 4, 12}
MinAnnealTimeOptions == {50, 100}
TileCounts == {0, 1}

Solvers ==
    [max_anneal_schedule_points : SchedulePointOptions,
     annealing_time_range : {<<t>> : t \in MinAnnealTimeOptions},
     num_tiles : TileCounts]

NoSolver == [max_anneal_schedule_points |-> 0, annealing_time_range |-> <<0>>, num_tiles |-> 0]
NoSlope == [num |-> 0, den |-> 1]
NoRatio == [num |-> 0, den |-> 1]
NoParams == [s_target |-> 0, hold_time |-> 0, ramp_up_slope |-> NoSlope]

\* The variables only the checks of the helpers on their own use.
HelperVars == <<spin_bits, sols, hamming_distances, params>>

HelperIdle ==
    /\ spin_bits = {}
    /\ sols = <<>>
    /\ hamming_distances = <<>>
    /\ params = NoParams

\* The notebook before its first cell has run.
NotebookFresh ==
    /\ solver = NoSolver
    /\ max_slope = NoSlope
    /\ problem = "none"
    /\ pause_schedule = <<>>
    /\ schedule = <<>>
    /\ sampler_embedded = FALSE
    /\ requests = <<>>
    /\ pending = {}
    /\ answer = <<>>
    /\ data = <<>>
    /\ ratio = NoRatio
    /\ k = 0
    /\ exception = "none"

NotebookVars ==
    <<solver, max_slope, problem, pause_schedule, schedule, sampler_embedded,
      requests, pending, answer, data, ratio, k, exception>>

--------------------------------------------------------------------------
(* The run of the notebook, cell by cell.                                  *)

Init ==
    /\ pc = "connect"
    /\ NotebookFresh
    /\ reverse_schedule = <<>>
    /\ time_total = 0
    /\ initial = <<>>
    /\ HelperIdle

\* sampler = DWaveSampler()
Connect ==
    /\ pc = "connect"
    /\ solver' \in Solvers
    /\ pc' = "properties"
    /\ UNCHANGED <<max_slope, problem, reverse_schedule, time_total, pause_schedule,
                   schedule, initial, sampler_embedded, requests, pending, answer,
                   data, ratio, k, exception, HelperVars>>

\* The properties are printed; max_slope is set.
QueryProperties ==
    /\ pc = "properties"
    /\ max_slope' = get_max_slope(solver)
    /\ pc' = "random_problem"
    /\ UNCHANGED <<solver, problem, reverse_schedule, time_total, pause_schedule,
                   schedule, initial, sampler_embedded, requests, pending, answer,
                   data, ratio, k, exception, HelperVars>>

\* h, J of the random problem on the solver's working graph.
RandomProblem ==
    /\ pc = "random_problem"
    /\ problem' = "random"
    /\ pc' = "define_schedule"
    /\ UNCHANGED <<solver, max_slope, reverse_schedule, time_total, pause_schedule,
                   schedule, initial, sampler_embedded, requests, pending, answer,
                   data, ratio, k, exception, HelperVars>>

\* reverse_schedule = make_reverse_anneal_schedule(s_target=0.45, hold_time=80, ...)
DefineSchedule ==
    /\ pc = "define_schedule"
    /\ reverse_schedule' = make_reverse_anneal_schedule(45, 80, max_slope)
    /\ time_total' = get_time_total(reverse_schedule')
    /\ pc' = "forward_random"
    /\ UNCHANGED <<solver, max_slope, problem, pause_schedule, schedule, initial,
                   sampler_embedded, requests, pending, answer, data, ratio, k,
                   exception, HelperVars>>

SubmitForwardRandom ==
    /\ pc = "forward_random"
    /\ Submit("forward_random", "sampler", forward_random_kwargs(time_total))
    /\ pc' = "forward_random_read"
    /\ UNCHANGED <<solver, max_slope, problem, reverse_schedule, time_total,
                   pause_schedule, schedule, initial, sampler_embedded, answer, data,
                   ratio, k, exception, HelperVars>>

\* forward_answer.record is read; initial is the sample at index i5.
ReadForwardRandom ==
    /\ pc = "forward_random_read"
    /\ Resolve
    /\ \E ans \in RandomProblemAnswers(LastRequest.kwargs.num_reads) :
          /\ answer' = ans
          /\ initial' = ans[get_i5(ans) + 1].sample
    /\ pc' = "reverse_random"
    /\ UNCHANGED <<solver, max_slope, problem, reverse_schedule, time_total,
                   pause_schedule, schedule, sampler_embedded, requests, data, ratio,
                   k, exception, HelperVars>>

SubmitReverseRandom ==
    /\ pc = "reverse_random"
    /\ Submit("reverse_random", "sampler",
              reverse_kwargs(num_reads_literal, "histogram",
                             reverse_anneal_params(reverse_schedule, initial, FALSE)))
    /\ pc' = "reverse_random_read"
    /\ UNCHANGED <<solver, max_slope, problem, reverse_schedule, time_total,
                   pause_schedule, schedule, initial, sampler_embedded, answer, data,
                   ratio, k, exception, HelperVars>>

ReadReverseRandom ==
    /\ pc = "reverse_random_read"
    /\ Resolve
    /\ IF Rejected(LastRequest)
       THEN /\ Raise("SolverFailureError")
            /\ UNCHANGED answer
       ELSE /\ answer' \in RandomProblemAnswers(LastRequest.kwargs.num_reads)
            /\ pc' = "problem16"
            /\ UNCHANGED exception
    /\ UNCHANGED <<solver, max_slope, problem, reverse_schedule, time_total,
                   pause_schedule, schedule, initial, sampler_embedded, requests, data,
                   ratio, k, HelperVars>>

\* h, J of the 16-bit problem.
Problem16 ==
    /\ pc = "problem16"
    /\ problem' = "16bit"
    /\ pc' = "tiling"
    /\ UNCHANGED <<solver, max_slope, reverse_schedule, time_total, pause_schedule,
                   schedule, initial, sampler_embedded, requests, pending, answer,
                   data, ratio, k, exception, HelperVars>>

embedding_bound_always(properties) == TRUE

\* if tiled_sampler.num_tiles: the branch that binds sampler_embedded.
embedding_bound(properties) == properties.num_tiles # 0

\* if tiled_sampler.num_tiles: sampler_embedded = ...  else: print(...)
Tiling ==
    /\ pc = "tiling"
    /\ sampler_embedded' = embedding_bound(solver)
    /\ pc' = "pause_schedule"
    /\ UNCHANGED <<solver, max_slope, problem, reverse_schedule, time_total,
                   pause_schedule, schedule, initial, requests, pending, answer, data,
                   ratio, k, exception, HelperVars>>

PauseSchedule ==
    /\ pc = "pause_schedule"
    /\ pause_schedule' = make_pause_schedule(time_total, max_slope)
    /\ pc' = "initial_state"
    /\ UNCHANGED <<solver, max_slope, problem, reverse_schedule, time_total, schedule,
                   initial, sampler_embedded, requests, pending, answer, data, ratio,
                   k, exception, HelperVars>>

\* initial = flip_bits(dict(ground_state), {1, 4, 7, 10, 12, 15})
InitialState ==
    /\ pc = "initial_state"
    /\ initial' = flip_bits(ground_state, {1, 4, 7, 10, 12, 15})
    /\ pc' = "sampling"
    /\ UNCHANGED <<solver, max_slope, problem, reverse_schedule, time_total,
                   pause_schedule, schedule, sampler_embedded, requests, pending,
                   answer, data, ratio, k, exception, HelperVars>>

\* data=[]
SamplingStart ==
    /\ pc = "sampling"
    /\ data' = <<>>
    /\ pc' = "sampling_submit"
    /\ UNCHANGED <<solver, max_slope, problem, reverse_schedule, time_total,
                   pause_schedule, schedule, initial, sampler_embedded, requests,
                   pending, answer, ratio, k, exception, HelperVars>>

\* The method whose block of the sampling cell runs next.
next_method == Len(data) + 1

after_sampling_submit_next_block == "sampling_submit"

\* Each call of the sampling cell is followed by len(answer), which reads the
\* results, before the cell goes on.
after_sampling_submit == "sampling_read"

\* answer = sampler_embedded.sample_ising(h, J, ...): the name sampler_embedded
\* is looked up first.
SamplingSubmit ==
    /\ pc = "sampling_submit"
    /\ IF sampler_embedded
       THEN /\ Submit(Methods[next_method], "sampler_embedded", sampling_kwargs(next_method))
            /\ pc' = after_sampling_submit
            /\ UNCHANGED exception
       ELSE /\ Raise("NameError")
            /\ UNCHANGED <<requests, pending>>
    /\ UNCHANGED <<solver, max_slope, problem, reverse_schedule, time_total,
                   pause_schedule, schedule, initial, sampler_embedded, answer, data,
                   ratio, k, HelperVars>>

\* Where the sampling cell goes on after a block has stored its row.
after_sampling_read(d) == IF Len(d) = Len(Methods) THEN "analysis" ELSE "sampling_submit"

\* print(... len(answer)); data.append(analyze(answer))
SamplingRead ==
    /\ pc = "sampling_read"
    /\ Resolve
    /\ IF Rejected(LastRequest)
       THEN /\ Raise("SolverFailureError")
            /\ UNCHANGED <<answer, data>>
       ELSE /\ answer' \in RawAnswers(LastRequest.kwargs.num_reads)
            /\ data' = Append(data, analyze(answer'))
            /\ pc' = after_sampling_read(data')
            /\ UNCHANGED exception
    /\ UNCHANGED <<solver, max_slope, problem, reverse_schedule, time_total,
                   pause_schedule, schedule, initial, sampler_embedded, requests,
                   ratio, k, HelperVars>>

\* The DataFrame of data is built, printed and plotted.
Analysis ==
    /\ pc = "analysis"
    /\ pc' = "sweep"
    /\ UNCHANGED <<NotebookVars, reverse_schedule, time_total, initial, HelperVars>>

\* initial = flip_bits(dict(ground_state), {0, 7, 15}); the loop starts.
SweepStart ==
    /\ pc = "sweep"
    /\ initial' = flip_bits(ground_state, {0, 7, 15})
    /\ k' = 1
    /\ pc' = "sweep_submit"
    /\ UNCHANGED <<solver, max_slope, problem, reverse_schedule, time_total,
                   pause_schedule, schedule, sampler_embedded, requests, pending,
                   answer, data, ratio, exception, HelperVars>>

sweep_points == product(s_target_vals, hold_time_vals)

\* One iteration of the loop up to the call of sample_ising.
SweepSubmit ==
    /\ pc = "sweep_submit"
    /\ schedule' = make_reverse_anneal_schedule(sweep_points[k][1], sweep_points[k][2],
                                                max_slope)
    /\ IF sampler_embedded
       THEN /\ Submit("sweep", "sampler_embedded",
                      reverse_kwargs(num_reads_literal, "raw",
                                     reverse_anneal_params(schedule', initial, TRUE)))
            /\ pc' = "sweep_read"
            /\ UNCHANGED exception
       ELSE /\ Raise("NameError")
            /\ UNCHANGED <<requests, pending>>
    /\ UNCHANGED <<solver, max_slope, problem, reverse_schedule, time_total,
                   pause_schedule, initial, sampler_embedded, answer, data, ratio, k,
                   HelperVars>>

\* The rest of the iteration: the answer's timing and samples are read and
\* its statistics appended to data_rows (kept out of the state: only plotted).
SweepRead ==
    /\ pc = "sweep_read"
    /\ Resolve
    /\ IF Rejected(LastRequest)
       THEN /\ Raise("SolverFailureError")
            /\ UNCHANGED <<answer, k>>
       ELSE /\ answer' \in RawAnswers(LastRequest.kwargs.num_reads)
            /\ k' = k + 1
            /\ pc' = IF k = Len(sweep_points) THEN "exercise" ELSE "sweep_submit"
            /\ UNCHANGED exception
    /\ UNCHANGED <<solver, max_slope, problem, reverse_schedule, time_total,
                   pause_schedule, schedule, initial, sampler_embedded, requests, data,
                   ratio, HelperVars>>

\* The exercise cell up to the call of sample_ising.
ExerciseSubmit ==
    /\ pc = "exercise"
    /\ initial' = flip_bits(ground_state, {1, 2, 5, 6, 9, 10, 13, 14, 15})
    /\ schedule' = make_reverse_anneal_schedule(exercise_s_target_vals[exercise_x + 1],
                                                exercise_hold_time_vals[exercise_y + 1],
                                                max_slope)
    /\ IF sampler_embedded
       THEN /\ Submit("exercise", "sampler_embedded",
                      reverse_kwargs(num_reads_literal, "histogram",
                                     reverse_anneal_params(schedule', initial', TRUE)))
            /\ pc' = "exercise_read"
            /\ UNCHANGED exception
       ELSE /\ Raise("NameError")
            /\ UNCHANGED <<requests, pending>>
    /\ UNCHANGED <<solver, max_slope, problem, reverse_schedule, time_total,
                   pause_schedule, sampler_embedded, answer, data, ratio, k, HelperVars>>

\* ratio = 0; if reverse_answer.record.energy[0] == ground_energy:
\*     ratio = reverse_answer.record[0]['num_occurrences']/float(reads)
exercise_ratio(ans) ==
    IF ans[1].energy = ground_energy
    THEN [num |-> ans[1].num_occurrences, den |-> reads]
    ELSE [num |-> 0, den |-> 1]

ExerciseRead ==
    /\ pc = "exercise_read"
    /\ Resolve
    /\ IF Rejected(LastRequest)
       THEN /\ Raise("SolverFailureError")
            /\ UNCHANGED <<answer, ratio>>
       ELSE /\ answer' \in HistogramAnswers(LastRequest.kwargs.num_reads)
            /\ ratio' = exercise_ratio(answer')
            /\ pc' = "done"
            /\ UNCHANGED exception
    /\ UNCHANGED <<solver, max_slope, problem, reverse_schedule, time_total,
                   pause_schedule, schedule, initial, sampler_embedded, requests, data,
                   k, HelperVars>>

Next ==
    \/ Connect
    \/ QueryProperties
    \/ RandomProblem
    \/ DefineSchedule
    \/ SubmitForwardRandom
    \/ ReadForwardRandom
    \/ SubmitReverseRandom
    \/ ReadReverseRandom
    \/ Problem16
    \/ Tiling
    \/ PauseSchedule
    \/ InitialState
    \/ SamplingStart
    \/ SamplingSubmit
    \/ SamplingRead
    \/ Analysis
    \/ SweepStart
    \/ SweepSubmit
    \/ SweepRead
    \/ ExerciseSubmit
    \/ ExerciseRead

Spec == Init /\ [][Next]_vars

--------------------------------------------------------------------------
(* flip_bits on its own: every set of qubits flipped in a copy of the      *)
(* global minimum, which reaches every assignment of the 16 spins.         *)

InitIsing ==
    /\ pc = "flip_bits"
    /\ spin_bits \in SUBSET Qubits
    /\ initial = ground_state
    /\ NotebookFresh
    /\ reverse_schedule = <<>>
    /\ time_total = 0
    /\ sols = <<>>
    /\ hamming_distances = <<>>
    /\ params = NoParams

\* initial = flip_bits(dict(ground_state), spin_bits)
FlipBitsCall ==
    /\ pc = "flip_bits"
    /\ initial' = flip_bits(initial, spin_bits)
    /\ pc' = "flip_bits_done"
    /\ UNCHANGED <<solver, max_slope, problem, reverse_schedule, time_total,
                   pause_schedule, schedule, sampler_embedded, requests, pending,
                   answer, data, ratio, k, exception, HelperVars>>

NextIsing == FlipBitsCall

SpecIsing == InitIsing /\ [][NextIsing]_vars

--------------------------------------------------------------------------
(* get_hamming_distances on its own: every sequence of up to MaxSols rows  *)
(* of HammingWidth spins.                                                  *)

Rows == [0..(HammingWidth - 1) -> Spins]

InitHamming ==
    /\ pc = "get_hamming_distances"
    /\ \E n \in 0..MaxSols : sols \in [1..n -> Rows]
    /\ hamming_distances = <<>>
    /\ NotebookFresh
    /\ reverse_schedule = <<>>
    /\ time_total = 0
    /\ initial = <<>>
    /\ spin_bits = {}
    /\ params = NoParams

HammingCall ==
    /\ pc = "get_hamming_distances"
    /\ hamming_distances' = get_hamming_distances(sols)
    /\ pc' = "get_hamming_distances_done"
    /\ UNCHANGED <<NotebookVars, reverse_schedule, time_total, initial, spin_bits,
                   sols, params>>

NextHamming == HammingCall

SpecHamming == InitHamming /\ [][NextHamming]_vars

--------------------------------------------------------------------------
(* The schedule cell on its own: s_target over every hundredth strictly    *)
(* between 0 and 1, hold times and ramp-up slopes 1/t for minimum          *)
(* annealing times t (all ramps then take a whole number of time units).   *)

HoldTimes == (1..MaxHoldTime) \cup {10, 40, 80, 100}
MinAnnealTimes == (1..MaxMinAnnealTime) \cup MinAnnealTimeOptions

InitSchedule ==
    /\ pc = "make_reverse_anneal_schedule"
    /\ params \in [s_target : 1..99, hold_time : HoldTimes,
                   ramp_up_slope : {[num |-> 100, den |-> t] : t \in MinAnnealTimes}]
    /\ reverse_schedule = <<>>
    /\ time_total = 0
    /\ NotebookFresh
    /\ initial = <<>>
    /\ spin_bits = {}
    /\ sols = <<>>
    /\ hamming_distances = <<>>

\* reverse_schedule = make_reverse_anneal_schedule(...); time_total = reverse_schedule[3][0]
ScheduleCall ==
    /\ pc = "make_reverse_anneal_schedule"
    /\ reverse_schedule' = make_reverse_anneal_schedule(params.s_target, params.hold_time,
                                                        params.ramp_up_slope)
    /\ time_total' = get_time_total(reverse_schedule')
    /\ pc' = "make_reverse_anneal_schedule_done"
    /\ UNCHANGED <<solver, max_slope, problem, pause_schedule, schedule, initial,
                   sampler_embedded, requests, pending, answer, data, ratio, k,
                   exception, HelperVars>>

NextSchedule == ScheduleCall

SpecSchedule == InitSchedule /\ [][NextSchedule]_vars

--------------------------------------------------------------------------
(* Properties.                                                             *)

Energy(sample) == ising_energy(sample, h, J)

\* C1: the assignment with every spin -1 attains the minimum Ising energy of
\* the 16-bit problem: no assignment of the 16 spins has a lower energy than
\* ground_energy.
C1_GroundStateMinimal ==
    /\ initial \in [Qubits -> Spins]
    /\ ground_energy <= Energy(initial)

C1_Witness ==
    /\ pc = "flip_bits_done"
    /\ spin_bits = Qubits
    /\ Energy(initial) > ground_energy

\* C2: the 16-bit problem has an energy gap of 4: every assignment other than
\* the global minimum has energy at least ground_energy + 4 (so the minimum
\* is unique and no assignment sits at ground_energy + 2).
C2_EnergyGap ==
    initial # ground_state => Energy(initial) >= ground_energy + 4

\* Some assignment has energy exactly ground_energy + 4.
C2_Witness ==
    /\ pc = "flip_bits_done"
    /\ Energy(initial) = ground_energy + 4

\* C3: flip_bits(dict(ground_state), B) is an assignment of the same 16
\* variables with values in {-1,+1} that differs from ground_state on exactly
\* the qubits of B, so its Hamming distance from the global minimum is the
\* size of B; the sets the notebook labels 1, 3, 6, 9 and 16 bits are at
\* those distances.
C3_FlipBitsDistance ==
    pc = "flip_bits_done" =>
        /\ DOMAIN initial = Qubits
        /\ \A q \in Qubits : initial[q] \in Spins
        /\ {q \in Qubits : initial[q] # ground_state[q]} = spin_bits
        /\ get_hamming_distance(initial, ground_state) = Cardinality(spin_bits)
        /\ \A lab \in LabelledInitialStates :
              spin_bits = lab.bits =>
                  get_hamming_distance(initial, ground_state) = lab.label

C3_Witness ==
    /\ pc = "flip_bits_done"
    /\ spin_bits = {1, 4, 7, 10, 12, 15}
    /\ get_hamming_distance(initial, ground_state) = 6

\* C4: get_hamming_distances of n samples returns max(n-1, 0) values, the
\* i-th being the number of positions at which sample i and sample i+1
\* differ, each between 0 and the number of qubits.
C4_ConsecutiveHammingDistances ==
    pc = "get_hamming_distances_done" =>
        /\ Len(hamming_distances) = (IF Len(sols) >= 1 THEN Len(sols) - 1 ELSE 0)
        /\ \A i \in 1..Len(hamming_distances) :
              /\ hamming_distances[i]
                    = Cardinality({q \in DOMAIN sols[i] : sols[i][q] # sols[i + 1][q]})
              /\ hamming_distances[i] >= 0
              /\ hamming_distances[i] <= HammingWidth

C4_Witness ==
    /\ pc = "get_hamming_distances_done"
    /\ Len(sols) = 3
    /\ Len(hamming_distances) = 2
    /\ hamming_distances[1] = 1
    /\ hamming_distances[2] = HammingWidth

C6_ScheduleXorAnnealingTime ==
    \A i \in 1..Len(requests) :
        LET given == DOMAIN requests[i].kwargs
            site  == requests[i].site
        IN  /\ ("anneal_schedule" \in given) # ("annealing_time" \in given)
            /\ site \in {"forward_random", "forward"} => "annealing_time" \in given
            /\ site \in {"reverse_random", "pause", "reverse", "sweep", "exercise"}
                  => "anneal_schedule" \in given
            /\ {"initial_state", "reinitialize_state"} \subseteq given
                  => "anneal_schedule" \in given
            /\ ("initial_state" \in given) = ("reinitialize_state" \in given)

C6_Witness ==
    /\ pc = "done"
    /\ Len(requests) = Len(ProgramOrder)
    /\ \E i \in 1..Len(requests) : "annealing_time" \in DOMAIN requests[i].kwargs
    /\ \E i \in 1..Len(requests) : "initial_state" \in DOMAIN requests[i].kwargs

\* C7: a request carrying a 4-point anneal_schedule is submitted only if the
\* solver's max_anneal_schedule_points is at least 4.
C7_ScheduleOnlyIfSupported ==
    \A i \in 1..Len(requests) :
        ("anneal_schedule" \in DOMAIN requests[i].kwargs
            /\ Len(requests[i].kwargs.anneal_schedule) = 4)
        => solver.max_anneal_schedule_points >= 4

\* C8: the reverse schedule for 0 < s_target < 1, hold_time > 0 and
\* ramp_up_slope > 0 has exactly four breakpoints: <<0, 1.0>>, two at
\* s_target that are hold_time apart, and a last one at s = 1.0; the times
\* increase strictly and time_total is the time of the last breakpoint.
C8_ReverseScheduleShape ==
    pc = "make_reverse_anneal_schedule_done" =>
        /\ Len(reverse_schedule) = 4
        /\ reverse_schedule[1] = <<0, 100>>
        /\ reverse_schedule[2][2] = params.s_target
        /\ reverse_schedule[3][2] = params.s_target
        /\ reverse_schedule[3][1] - reverse_schedule[2][1] = params.hold_time * 10000
        /\ reverse_schedule[4][2] = 100
        /\ \A i \in 1..3 : reverse_schedule[i][1] < reverse_schedule[i + 1][1]
        /\ \A i \in 1..4 : time_total >= reverse_schedule[i][1]
        /\ time_total = reverse_schedule[Len(reverse_schedule)][1]

C8_Witness ==
    /\ pc = "make_reverse_anneal_schedule_done"
    /\ params.s_target = 45
    /\ params.hold_time = 80
    /\ params.ramp_up_slope.den = 50
    /\ reverse_schedule = << <<0, 100>>, <<27500, 45>>, <<827500, 45>>, <<830250, 100>> >>
    /\ time_total = 830250

\* Number of requests the sampling cell has made.
SamplingRequests == Cardinality({i \in 1..Len(requests) : requests[i].site \in
                                    {Methods[j] : j \in 1..Len(Methods)}})

\* C9: at most one sampling request is outstanding, and only the one made
\* last: the results of each request are read (and, in the sampling cell,
\* analysed and stored) before the next is submitted; requests are submitted
\* in program order.
C9_OneRequestAtATime ==
    /\ Cardinality(pending) <= 1
    /\ pending \subseteq {Len(requests)}
    /\ Len(requests) <= Len(ProgramOrder)
    /\ \A i \in 1..Len(requests) : requests[i].site = ProgramOrder[i]
    /\ (pc \in {"sampling_submit", "sampling_read", "analysis"} /\ exception = "none")
          => Len(data) = SamplingRequests - Cardinality(pending)

C9_Witness ==
    /\ pc = "sampling_read"
    /\ pending = {Len(requests)}
    /\ LastRequest.site = "reverse"
    /\ Len(data) = 2

\* C10: when no pair of complete unit cells is found (num_tiles is 0) the run
\* never gets past the first use of sampler_embedded: it stops there with an
\* unhandled exception and no request for the 16-bit problem is submitted.
C10_InfeasibleEmbeddingStops ==
    (problem = "16bit" /\ pc # "tiling" /\ solver.num_tiles = 0) =>
        /\ \A i \in 1..Len(requests) : requests[i].problem # "16bit"
        /\ pc \in {"pause_schedule", "initial_state", "sampling", "sampling_submit", "failed"}
        /\ pc = "failed" => exception = "NameError"
        /\ pending = {}

C10_Witness ==
    /\ pc = "failed"
    /\ exception = "NameError"
    /\ solver.num_tiles = 0
    /\ problem = "16bit"
    /\ Len(requests) = 2

--------------------------------------------------------------------------
(* The pause-schedule cell on its own: for every minimum annealing time    *)
(* from 0.01 us to MaxPauseMinAnnealTime, with max_slope, reverse_schedule *)
(* and time_total as the earlier cells leave them.                         *)

InitPause ==
    /\ pc = "pause_schedule"
    /\ solver \in [max_anneal_schedule_points : {12},
                   annealing_time_range : {<<t>> : t \in 1..MaxPauseMinAnnealTime},
                   num_tiles : {1}]
    /\ max_slope = get_max_slope(solver)
    /\ reverse_schedule = make_reverse_anneal_schedule(45, 80, max_slope)
    /\ time_total = get_time_total(reverse_schedule)
    /\ problem = "16bit"
    /\ pause_schedule = <<>>
    /\ schedule = <<>>
    /\ initial = <<>>
    /\ sampler_embedded = TRUE
    /\ requests = <<>>
    /\ pending = {}
    /\ answer = <<>>
    /\ data = <<>>
    /\ ratio = NoRatio
    /\ k = 0
    /\ exception = "none"
    /\ HelperIdle

\* pause_schedule=[[0.0, 0.0], [50.0, 0.5], [time_total-0.5/max_slope, 0.5], [time_total, 1.0]]
PauseScheduleCall ==
    /\ pc = "pause_schedule"
    /\ pause_schedule' = make_pause_schedule(time_total, max_slope)
    /\ pc' = "pause_schedule_done"
    /\ UNCHANGED <<solver, max_slope, problem, reverse_schedule, time_total, schedule,
                   initial, sampler_embedded, requests, pending, answer, data, ratio,
                   k, exception, HelperVars>>

NextPause == PauseScheduleCall

SpecPause == InitPause /\ [][NextPause]_vars

\* The segment from breakpoint a to breakpoint b is no steeper than slope:
\* (ds/100) / (dt/10000 us) <= num/den, and a rise takes time.
slope_within(a, b, slope) ==
    LET dt == b[1] - a[1]
        ds == b[2] - a[2]
    IN  /\ ds > 0 => dt > 0
        /\ 100 * ds * slope.den <= slope.num * dt

\* The segment from a to b has exactly the given slope.
slope_equals(a, b, slope) ==
    /\ b[1] > a[1]
    /\ 100 * (b[2] - a[2]) * slope.den = slope.num * (b[1] - a[1])

\* A forward schedule with a pause at s = 0.5 that the solver's maximum slope
\* allows.
valid_pause_schedule(ps, slope) ==
    /\ Len(ps) = 4
    /\ \A i \in 1..3 : ps[i][1] <= ps[i + 1][1]
    /\ \A i \in 1..3 : ps[i][2] <= ps[i + 1][2]
    /\ ps[1] = <<0, 0>>
    /\ ps[2][2] = 50
    /\ ps[3][2] = 50
    /\ ps[4][2] = 100
    /\ \A i \in 1..3 : slope_within(ps[i], ps[i + 1], slope)
    /\ slope_equals(ps[3], ps[4], slope)

\* C11: for every positive minimum annealing time the pause schedule is a
\* valid forward schedule: times and s never decrease, s goes from 0 to 1
\* with a flat pause at 0.5, no segment is steeper than max_slope and the
\* final ramp has slope exactly max_slope.
C11_PauseScheduleValid ==
    pc = "pause_schedule_done" => valid_pause_schedule(pause_schedule, max_slope)

\* The same for minimum annealing times of at most 100 us, where the fixed
\* first ramp (0.5 in 50 us) is within max_slope.
C11_ValidUpTo100us ==
    (pc = "pause_schedule_done" /\ solver.annealing_time_range[1] <= 10000)
        => valid_pause_schedule(pause_schedule, max_slope)

\* Above 100 us only the first ramp is too steep.
C11_OnlyFirstRampTooSteep ==
    (pc = "pause_schedule_done" /\ solver.annealing_time_range[1] > 10000) =>
        /\ ~slope_within(pause_schedule[1], pause_schedule[2], max_slope)
        /\ slope_within(pause_schedule[2], pause_schedule[3], max_slope)
        /\ slope_equals(pause_schedule[3], pause_schedule[4], max_slope)
        /\ \A i \in 1..3 : pause_schedule[i][1] <= pause_schedule[i + 1][1]

==========================================================================
